---- MODULE Spec2Model ----
(***************************************************************************)
(* Model of the generational slot arena of typed_garena (src/src/lib.rs). *)
(* Every method of Arena<T> is a pure operator from the arena (and its    *)
(* arguments) to the arena afterwards and the returned value; the actions *)
(* apply these operators to the arena held in the variables.               *)
(***************************************************************************)
EXTENDS Integers, Sequences, FiniteSets, TLC

(* ------------------------------ bounds -------------------------------- *)

\* Largest number of slots the backing Vec is allowed to grow to.
MaxSlots == 3

\* Width in bits of the Generation counter in the model (u32 in the source);
\* small, so that MaxSlots inserts are enough for 2^GenBits removals.
GenBits == 1

\* Width in bits of usize in the model (the target's pointer width).
UsizeBits == 16

\* The element type T.
Values == {"a", "b"}

GenMod == 2 ^ GenBits

UsizeMod == 2 ^ UsizeBits

(* ------------------------------ data ---------------------------------- *)

\* Option<_>
None == [tag |-> "None"]

Some(x) == [tag |-> "Some", val |-> x]

\* Outcome of a call that unwinds (panic!, unreachable!, unwrap on None,
\* out-of-bounds indexing, arithmetic overflow under overflow checks).
Panic == [tag |-> "Panic"]

\* Outcome of a call that returns x.
Returned(x) == [tag |-> "Returned", val |-> x]

\* Option::unwrap
unwrap(opt) == IF opt = None THEN Panic ELSE Returned(opt.val)

\* enum Entry<T>
Occupied(gen, item) == [tag |-> "Occupied", generation |-> gen, item |-> item]

Free(next_generation, next_free) ==
    [tag |-> "Free", next_generation |-> next_generation, next_free |-> next_free]

\* ID::new
ID_new(index, generation) == [index |-> index, generation |-> generation]

\* Every handle a caller can present: all indices up to one past the largest
\* slot, all generations of the counter's width.
Handles == [index : 0 .. MaxSlots, generation : 0 .. GenMod - 1]

\* struct Arena<T>
Arena(es, head, n) == [entries |-> es, free_list_head |-> head, length |-> n]

\* Arena::new
new == Arena(<<>>, None, 0)

\* entries[i] with Rust's zero-based index
At(es, i) == es[i + 1]

\* A method's outcome: the arena afterwards and the value returned.
Outcome(a, r) == [arena |-> a, result |-> r]

(* ----------------------------- lookups -------------------------------- *)

\* Arena::get
get(self, id) ==
    IF ~(id.index < Len(self.entries)) THEN None
    ELSE LET entry == At(self.entries, id.index) IN
         IF entry.tag # "Occupied" THEN None
         ELSE IF id.generation # entry.generation THEN None
         ELSE Some(entry.item)

\* get_mut as it would be without the generation comparison.
get_mut_any_generation(self, id) ==
    IF ~(id.index < Len(self.entries)) THEN None
    ELSE LET entry == At(self.entries, id.index) IN
         IF entry.tag # "Occupied" THEN None
         ELSE Some(entry.item)

\* Arena::get_mut
get_mut(self, id) ==
    IF ~(id.index < Len(self.entries)) THEN None
    ELSE LET entry == At(self.entries, id.index) IN
         IF entry.tag # "Occupied" THEN None
         ELSE IF id.generation # entry.generation THEN None
         ELSE Some(entry.item)

\* Arena::contains
contains(self, id) == get(self, id) # None

\* Arena::len
len(self) == self.length

\* is_empty as it would be if it asked the backing store instead of the
\* live count.
is_empty_of_store(self) == Len(self.entries) = 0

\* Arena::is_empty
is_empty(self) == len(self) = 0

\* Index::index
index(self, id) ==
    unwrap(get(self, id))

\* IndexMut::index_mut
index_mut(self, id) ==
    unwrap(get_mut(self, id))

\* An assignment through the reference handed out by get_mut / index_mut.
write(self, id, item) ==
    [self EXCEPT !.entries[id.index + 1].item = item]

(* ----------------------------- mutators ------------------------------- *)

\* insert as it would be if the handle's index were read after the push.
insert_index_after_push(self, item) ==
    IF self.free_list_head # None
    THEN LET free == self.free_list_head.val
             e == At(self.entries, free)
         IN  Outcome(Arena([self.entries EXCEPT ![free + 1] =
                                Occupied(e.next_generation, item)],
                           e.next_free,
                           self.length + 1),
                     Returned(ID_new(free, e.next_generation)))
    ELSE LET pushed == Append(self.entries, Occupied(0, item)) IN
         Outcome(Arena(pushed, None, self.length + 1),
                 Returned(ID_new(Len(pushed), 0)))

\* insert as it would be if a new slot's index were taken from the live
\* count instead of the length of the Vec.
insert_index_from_length(self, item) ==
    IF self.free_list_head # None
    THEN LET free == self.free_list_head.val
             e == At(self.entries, free)
         IN  Outcome(Arena([self.entries EXCEPT ![free + 1] =
                                Occupied(e.next_generation, item)],
                           e.next_free,
                           self.length + 1),
                     Returned(ID_new(free, e.next_generation)))
    ELSE Outcome(Arena(Append(self.entries, Occupied(0, item)), None, self.length + 1),
                 Returned(ID_new(self.length, 0)))

\* insert as it would be without `self.length += 1`.
insert_keeps_length(self, item) ==
    IF self.free_list_head # None
    THEN LET free == self.free_list_head.val
             e == At(self.entries, free)
         IN  Outcome(Arena([self.entries EXCEPT ![free + 1] =
                                Occupied(e.next_generation, item)],
                           e.next_free,
                           self.length),
                     Returned(ID_new(free, e.next_generation)))
    ELSE Outcome(Arena(Append(self.entries, Occupied(0, item)), None, self.length),
                 Returned(ID_new(Len(self.entries), 0)))

\* Arena::insert
insert(self, item) ==
    IF self.free_list_head # None
    THEN LET free == self.free_list_head.val
             taken == [self EXCEPT !.free_list_head = None]
         IN  IF ~(free < Len(self.entries)) THEN Outcome(taken, Panic)
             ELSE IF At(self.entries, free).tag # "Free" THEN Outcome(taken, Panic)
             ELSE LET e == At(self.entries, free) IN
                  Outcome(Arena([self.entries EXCEPT ![free + 1] =
                                     Occupied(e.next_generation, item)],
                                e.next_free,
                                self.length + 1),
                          Returned(ID_new(free, e.next_generation)))
    ELSE LET idx == Len(self.entries) IN
         Outcome(Arena(Append(self.entries, Occupied(0, item)),
                       None,
                       self.length + 1),
                 Returned(ID_new(idx, 0)))

\* remove as it would be if it took the slot out of the Vec with
\* swap_remove (the last slot moves into the vacated place).
remove_swap_remove(self, id, overflow_checks) ==
    IF ~contains(self, id) THEN Outcome(self, Returned(None))
    ELSE LET n     == Len(self.entries)
             moved == [self.entries EXCEPT ![id.index + 1] = self.entries[n]]
         IN  Outcome(Arena(SubSeq(moved, 1, n - 1), self.free_list_head, self.length - 1),
                     Returned(Some(At(self.entries, id.index).item)))

\* remove as it would be if it popped the Vec when the last slot is vacated.
remove_pops_trailing(self, id, overflow_checks) ==
    IF ~contains(self, id) THEN Outcome(self, Returned(None))
    ELSE IF id.index + 1 = Len(self.entries)
    THEN Outcome(Arena(SubSeq(self.entries, 1, id.index), self.free_list_head,
                       self.length - 1),
                 Returned(Some(At(self.entries, id.index).item)))
    ELSE Outcome([self EXCEPT !.entries[id.index + 1] =
                                  Free((id.generation + 1) % GenMod, self.free_list_head),
                              !.length = self.length - 1],
                 Returned(Some(At(self.entries, id.index).item)))

\* remove as it would be if the vacated slot kept the handle's generation.
remove_same_generation(self, id, overflow_checks) ==
    IF ~contains(self, id) THEN Outcome(self, Returned(None))
    ELSE Outcome([self EXCEPT !.entries[id.index + 1] =
                                  Free(id.generation, self.free_list_head),
                              !.length = self.length - 1],
                 Returned(Some(At(self.entries, id.index).item)))

\* remove as it would be if it read self.entries[id.index] before the
\* contains test.
remove_indexes_first(self, id, overflow_checks) ==
    IF ~(id.index < Len(self.entries)) THEN Outcome(self, Panic)
    ELSE IF ~contains(self, id) THEN Outcome(self, Returned(None))
    ELSE Outcome([self EXCEPT !.entries[id.index + 1] =
                                  Free((id.generation + 1) % GenMod, self.free_list_head),
                              !.length = self.length - 1],
                 Returned(Some(At(self.entries, id.index).item)))

\* remove as it would be if it only checked that the slot is Occupied.
remove_any_generation(self, id, overflow_checks) ==
    IF ~(id.index < Len(self.entries)) THEN Outcome(self, Returned(None))
    ELSE IF At(self.entries, id.index).tag # "Occupied" THEN Outcome(self, Returned(None))
    ELSE Outcome([self EXCEPT !.entries[id.index + 1] =
                                  Free((id.generation + 1) % GenMod, self.free_list_head),
                              !.length = self.length - 1],
                 Returned(Some(At(self.entries, id.index).item)))

\* remove as it would be without `self.length -= 1`.
remove_keeps_length(self, id, overflow_checks) ==
    IF ~contains(self, id) THEN Outcome(self, Returned(None))
    ELSE Outcome([self EXCEPT !.entries[id.index + 1] =
                      Free((id.generation + 1) % GenMod, self.free_list_head)],
                 Returned(Some(At(self.entries, id.index).item)))

\* remove as it would be if it handed out the item without vacating the slot.
remove_keeps_slot(self, id, overflow_checks) ==
    IF ~contains(self, id) THEN Outcome(self, Returned(None))
    ELSE Outcome([self EXCEPT !.length = self.length - 1],
                 Returned(Some(At(self.entries, id.index).item)))

\* Arena::remove; overflow_checks is the build's integer-overflow setting
\* (on: `+ 1` and `-= 1` panic on overflow, off: they wrap).
remove(self, id, overflow_checks) ==
    IF ~contains(self, id) THEN Outcome(self, Returned(None))
    ELSE IF overflow_checks /\ id.generation + 1 >= GenMod THEN Outcome(self, Panic)
    ELSE LET new_entry == Free((id.generation + 1) % GenMod, self.free_list_head)
             old_entry == At(self.entries, id.index)
             replaced  == [self EXCEPT !.entries[id.index + 1] = new_entry]
         IN  IF old_entry.tag # "Occupied" THEN Outcome(replaced, Panic)
             ELSE IF overflow_checks /\ self.length = 0 THEN Outcome(replaced, Panic)
             ELSE Outcome([replaced EXCEPT !.length = (self.length - 1) % UsizeMod],
                          Returned(Some(old_entry.item)))

\* The value-producing functions handed to insert_with_id.
Builders == {"const_a", "const_b", "by_index"}

\* The value builder b produces for the handle id.
build(b, id) ==
    CASE b = "const_a"  -> "a"
      [] b = "const_b"  -> "b"
      [] b = "by_index" -> IF id.index % 2 = 0 THEN "a" ELSE "b"

\* Arena::insert_with_id (spec section 4.1): the handle is computed from the
\* free-list head (or the append point), the builder is called with it, and
\* the slot is written afterwards.  `calls` lists the builder's invocations:
\* the handle it was given and the arena it could observe.
insert_with_id(self, b) ==
    IF self.free_list_head # None
    THEN LET free == self.free_list_head.val IN
         IF ~(free < Len(self.entries)) \/ At(self.entries, free).tag # "Free"
         THEN [arena |-> self, result |-> Panic, calls |-> <<>>]
         ELSE LET e    == At(self.entries, free)
                  id   == ID_new(free, e.next_generation)
                  item == build(b, id)
              IN  [arena  |-> Arena([self.entries EXCEPT ![free + 1] =
                                         Occupied(e.next_generation, item)],
                                    e.next_free,
                                    self.length + 1),
                   result |-> Returned(id),
                   calls  |-> <<[id |-> id, seen |-> self]>>]
    ELSE LET id   == ID_new(Len(self.entries), 0)
             item == build(b, id)
         IN  [arena  |-> Arena(Append(self.entries, Occupied(0, item)),
                               None,
                               self.length + 1),
              result |-> Returned(id),
              calls  |-> <<[id |-> id, seen |-> self]>>]

(* ----------------------------- iterators ------------------------------ *)

\* struct Iter / struct IterMut: the slots not yet visited and the absolute
\* index of the first of them.
Cursor(es, idx) == [entries |-> es, index |-> idx]

\* What a call on a cursor gives: the cursor afterwards and the item.
Step(it, r) == [it |-> it, result |-> r]

\* Arena::iter
iter(self) == Cursor(self.entries, 0)

\* Arena::iter_mut
iter_mut(self) == Cursor(self.entries, 0)

RECURSIVE Iter_next(_)
\* Iterator::next for Iter
Iter_next(it) ==
    IF it.entries = <<>> THEN Step(Cursor(<<>>, it.index), None)
    ELSE LET first == Head(it.entries)
             rest  == Tail(it.entries)
             idx   == it.index
             moved == Cursor(rest, idx + 1)
         IN  IF first.tag = "Occupied"
             THEN Step(moved, Some(<<ID_new(idx, first.generation), first.item>>))
             ELSE Iter_next(moved)

RECURSIVE Iter_next_back_full_len(_)
\* next_back as it would be if the index were taken from the length of the
\* whole remaining slice instead of the slice without its last slot.
Iter_next_back_full_len(it) ==
    IF it.entries = <<>> THEN Step(Cursor(<<>>, it.index), None)
    ELSE LET last_e == it.entries[Len(it.entries)]
             others == SubSeq(it.entries, 1, Len(it.entries) - 1)
             idx    == it.index + Len(it.entries)
             moved  == Cursor(others, it.index)
         IN  IF last_e.tag = "Occupied"
             THEN Step(moved, Some(<<ID_new(idx, last_e.generation), last_e.item>>))
             ELSE Iter_next_back_full_len(moved)

RECURSIVE Iter_next_back(_)
\* DoubleEndedIterator::next_back for Iter
Iter_next_back(it) ==
    IF it.entries = <<>> THEN Step(Cursor(<<>>, it.index), None)
    ELSE LET last_e == it.entries[Len(it.entries)]
             others == SubSeq(it.entries, 1, Len(it.entries) - 1)
             idx    == it.index + Len(others)
             moved  == Cursor(others, it.index)
         IN  IF last_e.tag = "Occupied"
             THEN Step(moved, Some(<<ID_new(idx, last_e.generation), last_e.item>>))
             ELSE Iter_next_back(moved)

RECURSIVE IterMut_next(_)
\* Iterator::next for IterMut
IterMut_next(it) ==
    IF it.entries = <<>> THEN Step(Cursor(<<>>, it.index), None)
    ELSE LET first == Head(it.entries)
             rest  == Tail(it.entries)
             idx   == it.index
             moved == Cursor(rest, idx + 1)
         IN  IF first.tag = "Occupied"
             THEN Step(moved, Some(<<ID_new(idx, first.generation), first.item>>))
             ELSE IterMut_next(moved)

RECURSIVE IterMut_next_back_relative(_)
\* next_back as it would be if the handle's index were the position in the
\* remaining slice, without the absolute index of the front.
IterMut_next_back_relative(it) ==
    IF it.entries = <<>> THEN Step(Cursor(<<>>, it.index), None)
    ELSE LET last_e == it.entries[Len(it.entries)]
             others == SubSeq(it.entries, 1, Len(it.entries) - 1)
             idx    == Len(others)
             moved  == Cursor(others, it.index)
         IN  IF last_e.tag = "Occupied"
             THEN Step(moved, Some(<<ID_new(idx, last_e.generation), last_e.item>>))
             ELSE IterMut_next_back_relative(moved)

RECURSIVE IterMut_next_back(_)
\* DoubleEndedIterator::next_back for IterMut
IterMut_next_back(it) ==
    IF it.entries = <<>> THEN Step(Cursor(<<>>, it.index), None)
    ELSE LET last_e == it.entries[Len(it.entries)]
             others == SubSeq(it.entries, 1, Len(it.entries) - 1)
             idx    == it.index + Len(others)
             moved  == Cursor(others, it.index)
         IN  IF last_e.tag = "Occupied"
             THEN Step(moved, Some(<<ID_new(idx, last_e.generation), last_e.item>>))
             ELSE IterMut_next_back(moved)

\* Arena::indices
indices(self) == [items |-> iter(self)]

\* Iterator::next for Indices
Indices_next(it) ==
    LET s == Iter_next(it.items) IN
    Step([items |-> s.it], IF s.result = None THEN None ELSE Some(s.result.val[1]))

\* IntoIterator::into_iter for Arena: the slots not yet handed out.
into_iter(self) == [entries |-> self.entries]

\* next as it would be if it gave up at the first Free slot instead of
\* skipping it.
IntoIter_next_stops_at_free(it) ==
    IF it.entries = <<>> THEN Step(it, None)
    ELSE LET entry == Head(it.entries)
             moved == [entries |-> Tail(it.entries)]
         IN  IF entry.tag = "Occupied" THEN Step(moved, Some(entry.item))
             ELSE Step(moved, None)

RECURSIVE IntoIter_next(_)
\* Iterator::next for IntoIter
IntoIter_next(it) ==
    IF it.entries = <<>> THEN Step(it, None)
    ELSE LET entry == Head(it.entries)
             moved == [entries |-> Tail(it.entries)]
         IN  IF entry.tag = "Occupied" THEN Step(moved, Some(entry.item))
             ELSE IntoIter_next(moved)

RECURSIVE IntoIter_next_back(_)
\* DoubleEndedIterator::next_back for IntoIter
IntoIter_next_back(it) ==
    IF it.entries = <<>> THEN Step(it, None)
    ELSE LET entry == it.entries[Len(it.entries)]
             moved == [entries |-> SubSeq(it.entries, 1, Len(it.entries) - 1)]
         IN  IF entry.tag = "Occupied" THEN Step(moved, Some(entry.item))
             ELSE IntoIter_next_back(moved)

\* One call on a cursor of the given kind from the given end.
Advance(kind, end, it) ==
    CASE kind = "iter"     /\ end = "front" -> Iter_next(it)
      [] kind = "iter"     /\ end = "back"  -> Iter_next_back(it)
      [] kind = "iter_mut" /\ end = "front" -> IterMut_next(it)
      [] kind = "iter_mut" /\ end = "back"  -> IterMut_next_back(it)
      [] kind = "indices"   /\ end = "front" -> Indices_next(it)
      [] kind = "into_iter" /\ end = "front" -> IntoIter_next(it)
      [] kind = "into_iter" /\ end = "back"  -> IntoIter_next_back(it)

RECURSIVE Drain(_, _, _)
\* The items a cursor yields when it is called from one end until it
\* answers None (a `for` loop, or `.rev()` and a `for` loop).
Drain(kind, end, it) ==
    LET s == Advance(kind, end, it) IN
    IF s.result = None THEN <<>>
    ELSE <<s.result.val>> \o Drain(kind, end, s.it)

(* ------------------------------ state --------------------------------- *)

VARIABLES
    entries,          \* Arena::entries
    free_list_head,   \* Arena::free_list_head
    length,           \* Arena::length
    overflow_checks,  \* whether the build panics on integer overflow
    panicked,         \* a call has unwound; the run is over
    last,             \* the most recent call: operation, arguments, result
    removed,          \* handles for which remove has returned a value
    issued            \* handles that insert / insert_with_id have returned

vars == <<entries, free_list_head, length, overflow_checks, panicked, last, removed, issued>>

\* The arena held in the variables.
self == Arena(entries, free_list_head, length)

\* The record of a call: `id` is a record (None where the call takes no
\* handle), `item` a string (NoItem where the call takes no value), `result`
\* is Panic or Returned of a record.
Call(op, id, item, result) == [op |-> op, id |-> id, item |-> item, result |-> result]

\* The item of a call that takes none.
NoItem == "-"

\* What a call returns, as a record: a bool, a count, the items of a whole
\* traversal, a reference to a stored value, the item of one cursor call.
Bool(b) == [bool |-> b]

Count(n) == [count |-> n]

Items(kind, seq) ==
    CASE kind \in {"iter", "iter_mut"} -> [pairs |-> seq]
      [] kind = "indices"              -> [handles |-> seq]
      [] kind = "into_iter"            -> [values |-> seq]

Ref(x) == [ref |-> x]

Yield(opt) == IF opt = None THEN None ELSE [tag |-> "Some", pair |-> opt.val]

Init ==
    /\ entries = new.entries
    /\ free_list_head = new.free_list_head
    /\ length = new.length
    /\ overflow_checks \in BOOLEAN
    /\ panicked = FALSE
    /\ last = Call("new", None, NoItem, Returned(None))
    /\ removed = {}
    /\ issued = {}

\* The arena becomes a; the call is recorded.
Becomes(a, call) ==
    /\ entries' = a.entries
    /\ free_list_head' = a.free_list_head
    /\ length' = a.length
    /\ panicked' = (call.result = Panic)
    /\ last' = call
    /\ issued' = IF call.op \in {"insert", "insert_with_id"} /\ call.result # Panic
                 THEN issued \cup {call.result.val}
                 ELSE issued
    /\ UNCHANGED overflow_checks

\* arena.insert(item)
Insert ==
    /\ ~panicked
    /\ free_list_head # None \/ Len(entries) < MaxSlots
    /\ \E item \in Values :
         LET o == insert(self, item) IN
         /\ Becomes(o.arena, Call("insert", None, item, o.result))
         /\ UNCHANGED removed

\* arena.insert_with_id(builder); the call record keeps the builder's
\* invocations in `id` and the builder in `item`.
InsertWithId ==
    /\ ~panicked
    /\ free_list_head # None \/ Len(entries) < MaxSlots
    /\ \E b \in Builders :
         LET o == insert_with_id(self, b) IN
         /\ Becomes(o.arena, Call("insert_with_id", [calls |-> o.calls], b, o.result))
         /\ UNCHANGED removed

\* arena.remove(id)
Remove ==
    /\ ~panicked
    /\ \E id \in Handles :
         LET o == remove(self, id, overflow_checks) IN
         /\ Becomes(o.arena, Call("remove", id, NoItem, o.result))
         /\ removed' = IF o.result # Panic /\ o.result.val # None THEN removed \cup {id} ELSE removed

\* arena.get(id)
Get ==
    /\ ~panicked
    /\ \E id \in Handles :
         /\ Becomes(self, Call("get", id, NoItem, Returned(get(self, id))))
         /\ UNCHANGED removed

\* if let Some(r) = arena.get_mut(id) { *r = item }
GetMut ==
    /\ ~panicked
    /\ \E id \in Handles, item \in Values :
         LET r == get_mut(self, id) IN
         /\ Becomes(IF r = None THEN self ELSE write(self, id, item),
                    Call("get_mut", id, item, Returned(r)))
         /\ UNCHANGED removed

\* arena.contains(id)
Contains ==
    /\ ~panicked
    /\ \E id \in Handles :
         /\ Becomes(self, Call("contains", id, NoItem, Returned(Bool(contains(self, id)))))
         /\ UNCHANGED removed

\* arena.len()
LenCall ==
    /\ ~panicked
    /\ Becomes(self, Call("len", None, NoItem, Returned(Count(len(self)))))
    /\ UNCHANGED removed

\* arena.is_empty()
IsEmpty ==
    /\ ~panicked
    /\ Becomes(self, Call("is_empty", None, NoItem, Returned(Bool(is_empty(self)))))
    /\ UNCHANGED removed

\* arena[id]
IndexCall ==
    /\ ~panicked
    /\ \E id \in Handles :
         LET r == index(self, id) IN
         /\ Becomes(self, Call("index", id, NoItem, IF r = Panic THEN Panic ELSE Returned(Ref(r.val))))
         /\ UNCHANGED removed

\* arena[id] = item
IndexMutCall ==
    /\ ~panicked
    /\ \E id \in Handles, item \in Values :
         LET r == index_mut(self, id) IN
         /\ Becomes(IF r = Panic THEN self ELSE write(self, id, item),
                    Call("index_mut", id, item, IF r = Panic THEN Panic ELSE Returned(Ref(r.val))))
         /\ UNCHANGED removed

\* The iterator of the given kind over the arena.
Open(kind, a) ==
    CASE kind = "iter"      -> iter(a)
      [] kind = "iter_mut"  -> iter_mut(a)
      [] kind = "indices"   -> indices(a)
      [] kind = "into_iter" -> into_iter(a)

\* The iterator kinds and the ends each can be taken from.
Traversals ==
    ({"iter", "iter_mut", "into_iter"} \X {"front", "back"}) \cup {<<"indices", "front">>}

\* for x in arena.iter() / iter_mut() / indices() / arena.clone().into_iter(),
\* forwards or through .rev()
Traverse ==
    /\ ~panicked
    /\ \E t \in Traversals :
         LET kind == t[1]
             end  == t[2]
         IN  /\ Becomes(self, Call(kind, None, end,
                                   Returned(Items(kind, Drain(kind, end, Open(kind, self))))))
             /\ UNCHANGED removed

\* The state of a live iter() / iter_mut() cursor: its kind, the cursor
\* and the items it has yielded so far.
Live(kind, it, yielded) == [kind |-> kind, it |-> it, yielded |-> yielded]

\* What a cursor that has not been called yet has returned.
Opened == [tag |-> "Opened"]

\* let mut it = arena.iter() / arena.iter_mut(); the cursor borrows the arena
\* until another call on the arena is made.
CursorOpen ==
    /\ ~panicked
    /\ \E kind \in {"iter", "iter_mut"} :
         /\ Becomes(self, Call("cursor", Live(kind, Open(kind, self), <<>>),
                               "open", Returned(Opened)))
         /\ UNCHANGED removed

\* it.next() / it.next_back() on the live cursor
CursorStep ==
    /\ ~panicked
    /\ last.op = "cursor"
    /\ \E end \in {"front", "back"} :
         LET c == last.id
             s == Advance(c.kind, end, c.it)
             y == IF s.result = None THEN c.yielded ELSE Append(c.yielded, s.result.val)
         IN  /\ Becomes(self, Call("cursor", Live(c.kind, s.it, y), end, Returned(Yield(s.result))))
             /\ UNCHANGED removed

Next ==
    \/ Insert
    \/ InsertWithId
    \/ Remove
    \/ Get
    \/ GetMut
    \/ Contains
    \/ LenCall
    \/ IsEmpty
    \/ IndexCall
    \/ IndexMutCall
    \/ Traverse
    \/ CursorOpen
    \/ CursorStep

Spec == Init /\ [][Next]_vars

(* A caller that keeps one value in the arena and replaces it over and    *)
(* over: loop { let h = arena.insert(v); ...lookups...; arena.remove(h); } *)

\* arena.insert(v) when the arena holds no value
CycleInsert ==
    /\ \A i \in 1 .. Len(entries) : entries[i].tag # "Occupied"
    /\ Insert

\* arena.remove(h) of the handle the last insert returned
CycleRemove ==
    /\ \E i \in 1 .. Len(entries) : entries[i].tag = "Occupied"
    /\ Remove
    /\ last'.result # Returned(None)

NextCycle ==
    \/ CycleInsert
    \/ CycleRemove
    \/ Get
    \/ Contains
    \/ LenCall

SpecCycle == Init /\ [][NextCycle]_vars

(* --------------------------- definitions of the spec ------------------ *)

\* Spec section 3: a handle is valid iff the addressed slot exists, is
\* Occupied and its stored generation equals the handle's generation.
Valid(h) ==
    /\ h.index < Len(entries)
    /\ At(entries, h.index).tag = "Occupied"
    /\ At(entries, h.index).generation = h.generation

\* The indices (zero-based) of the Free slots.
FreeSlots == {i \in 0 .. Len(entries) - 1 : At(entries, i).tag = "Free"}

\* The indices (zero-based) of the Occupied slots.
OccupiedSlots == {i \in 0 .. Len(entries) - 1 : At(entries, i).tag = "Occupied"}

\* The last call was `op` and it returned (did not unwind).
Did(op) == last.op = op /\ last.result # Panic

(* ------------------------------- C1 ----------------------------------- *)

\* C1: once remove(h) has returned a value, in every later state get(h) and
\* get_mut(h) are absent, contains(h) is false and remove(h) returns absent
\* (so a second remove of the same handle returns absent).
C1_RemovedStaysInvalid ==
    \A h \in removed :
        /\ get(self, h) = None
        /\ get_mut(self, h) = None
        /\ ~contains(self, h)
        /\ remove(self, h, overflow_checks).result = Returned(None)

\* A second remove of a removed handle has returned absent, after a later
\* insert.
C1_Witness ==
    /\ Did("remove")
    /\ last.id \in removed
    /\ last.result = Returned(None)
    /\ Len(entries) > last.id.index + 1

(* ------------------------------- C2 ----------------------------------- *)

\* C2: right after h = insert(v), get(h) = v, contains(h) holds and h
\* addresses an Occupied slot whose stored generation is h.generation.
C2_InsertThenGet ==
    last.op = "insert" =>
        /\ last.result # Panic
        /\ LET h == last.result.val IN
           /\ get(self, h) = Some(last.item)
           /\ contains(self, h)
           /\ h.index < Len(entries)
           /\ At(entries, h.index).tag = "Occupied"
           /\ At(entries, h.index).generation = h.generation

\* An insert has returned in an arena that already had a removal.
C2_Witness ==
    /\ Did("insert")
    /\ removed # {}
    /\ get(self, last.result.val) = Some(last.item)

(* ------------------------------- C3 ----------------------------------- *)

\* The step is a call of insert that returned.
InsertStep == last'.op = "insert" /\ last'.result # Panic /\ vars' # vars

\* The step is a call of remove that returned a value.
RemoveOkStep ==
    /\ last'.op = "remove"
    /\ last'.result # Panic
    /\ last'.result.val # None
    /\ vars' # vars

\* The step is a call of remove that returned absent.
RemoveFailStep == last'.op = "remove" /\ last'.result = Returned(None)

\* C3: whenever some slot is Free, insert reuses a Free slot instead of
\* growing the backing store; an insert right after a successful remove(h)
\* returns the handle (h.index, h.generation + 1).
C3_SlotReuse ==
    [][ InsertStep =>
          /\ FreeSlots # {} =>
               /\ Len(entries') = Len(entries)
               /\ last'.result.val.index \in FreeSlots
          /\ (Did("remove") /\ last.result.val # None) =>
               last'.result.val = ID_new(last.id.index, last.id.generation + 1)
      ]_vars

(* ------------------------------- C4 ----------------------------------- *)

\* C4: len() is the number of Occupied slots and the number of valid
\* handles; insert adds exactly 1 to it, a successful remove takes exactly 1
\* from it, a failed remove leaves it unchanged.
C4_CountInvariant ==
    /\ [](/\ len(self) = Cardinality(OccupiedSlots)
          /\ len(self) = Cardinality({h \in Handles : Valid(h)}))
    /\ [][/\ InsertStep => len(self)' = len(self) + 1
          /\ RemoveOkStep => len(self)' = len(self) - 1
          /\ RemoveFailStep => len(self)' = len(self)
         ]_vars

\* A successful remove has left a non-empty arena with a Free slot.
C4_Witness ==
    /\ Did("remove")
    /\ last.result.val # None
    /\ len(self) = 2
    /\ Cardinality(FreeSlots) = 1

(* ------------------------------- C5 ----------------------------------- *)

RECURSIVE FreeWalk(_, _)
\* The slot indices met by following next_free links from head, for at most
\* fuel links; <<-1>> is appended where the walk leaves the Free slots or
\* runs out of fuel.
FreeWalk(head, fuel) ==
    IF head = None THEN <<>>
    ELSE IF fuel = 0 THEN <<-1>>
    ELSE IF ~(head.val < Len(entries)) THEN <<-1>>
    ELSE IF At(entries, head.val).tag # "Free" THEN <<-1>>
    ELSE <<head.val>> \o FreeWalk(At(entries, head.val).next_free, fuel - 1)

\* C5: following next_free from free_list_head visits exactly the Free
\* slots, each once, and ends in none.
C5_FreeListSound ==
    LET walk == FreeWalk(free_list_head, Len(entries)) IN
    /\ \A k \in 1 .. Len(walk) : walk[k] # -1
    /\ \A k, l \in 1 .. Len(walk) : k # l => walk[k] # walk[l]
    /\ {walk[k] : k \in 1 .. Len(walk)} = FreeSlots

(* ------------------------------- C6 ----------------------------------- *)

\* C6: for every handle (out-of-range indices and handles of Free slots
\* included) get and get_mut are present, contains is true and remove
\* returns a value exactly when the handle is valid; otherwise each reports
\* absent / false, and none of the four unwinds.
C6_ValidityUniform ==
    \A h \in Handles :
        LET rm == remove(self, h, overflow_checks).result IN
        /\ (get(self, h) # None) = Valid(h)
        /\ (get_mut(self, h) # None) = Valid(h)
        /\ contains(self, h) = Valid(h)
        /\ rm # Panic
        /\ (rm.val # None) = Valid(h)
        /\ get(self, h) # Panic
        /\ get_mut(self, h) # Panic

\* get has reported absent for a handle whose slot is Free while another
\* slot is Occupied.
C6_Witness ==
    /\ Did("get")
    /\ last.id.index \in FreeSlots
    /\ last.result = Returned(None)
    /\ OccupiedSlots # {}

(* ------------------------------- C7 ----------------------------------- *)

\* C7: remove of a handle that is not valid returns absent and leaves every
\* slot, the free-list head and len() unchanged.
C7_FailedRemoveNoMutation ==
    [][ (last'.op = "remove" /\ (~Valid(last'.id) \/ last'.result = Returned(None))) =>
          /\ last'.result = Returned(None)
          /\ entries' = entries
          /\ free_list_head' = free_list_head
          /\ length' = length
          /\ len(self)' = len(self)
      ]_vars

\* remove has returned absent for a stale generation of an Occupied slot.
C7_Witness ==
    /\ Did("remove")
    /\ last.result = Returned(None)
    /\ last.id.index \in OccupiedSlots
    /\ last.id.generation # At(entries, last.id.index).generation

(* ------------------------------- C8 ----------------------------------- *)

\* The sequence s of (handle, value) pairs holds exactly the currently valid
\* pairs: every pair is a valid handle with its value, every valid handle
\* occurs.
ExactlyLive(s) ==
    /\ \A k \in 1 .. Len(s) : Valid(s[k][1]) /\ get(self, s[k][1]) = Some(s[k][2])
    /\ \A h \in Handles : Valid(h) => \E k \in 1 .. Len(s) : s[k][1] = h
    /\ Len(s) = len(self)

\* C8: iter() and iter_mut() yield exactly the currently valid (handle,
\* value) pairs, each once, in ascending index order; taken from the back
\* they yield the same pairs in descending index order.
C8_IterationOrder ==
    \A kind \in {"iter", "iter_mut"} :
        LET it  == IF kind = "iter" THEN iter(self) ELSE iter_mut(self)
            fwd == Drain(kind, "front", it)
            bwd == Drain(kind, "back", it)
        IN  /\ ExactlyLive(fwd)
            /\ \A k, l \in 1 .. Len(fwd) : k < l => fwd[k][1].index < fwd[l][1].index
            /\ ExactlyLive(bwd)
            /\ \A k, l \in 1 .. Len(bwd) : k < l => bwd[k][1].index > bwd[l][1].index

\* iter() has been traversed from the back over two live entries with a
\* Free slot between them.
C8_Witness ==
    /\ Did("iter")
    /\ last.item = "back"
    /\ Len(last.result.val.pairs) = 2
    /\ Len(entries) = 3
    /\ FreeSlots = {1}

(* ------------------------------- C9 ----------------------------------- *)

\* The generation a slot carries: Occupied's generation or Free's
\* next_generation.
SlotGeneration(e) == IF e.tag = "Occupied" THEN e.generation ELSE e.next_generation

\* C9: no step decreases the generation of a slot; a successful remove of
\* the slot increases it by exactly 1; every other call (insert, failed
\* remove, lookups, iteration) leaves it unchanged.
C9_GenerationMonotone ==
    [][ \A i \in 0 .. Len(entries) - 1 :
          /\ i < Len(entries')
          /\ SlotGeneration(At(entries', i)) >= SlotGeneration(At(entries, i))
          /\ IF RemoveOkStep /\ last'.id.index = i
             THEN SlotGeneration(At(entries', i)) = SlotGeneration(At(entries, i)) + 1
             ELSE SlotGeneration(At(entries', i)) = SlotGeneration(At(entries, i))
      ]_vars

\* A slot stands at generation 1 after its removal, with a later insert done.
C9_Witness ==
    /\ Did("insert")
    /\ \E i \in FreeSlots : SlotGeneration(At(entries, i)) = 1

(* ------------------------------- C10 ---------------------------------- *)

\* C10: arena[h] (and its mutable form) returns the value of get(h)
\* (get_mut(h)) when h is valid and unwinds exactly when h is invalid; no
\* other call on the arena unwinds.
C10_IndexPanics ==
    /\ \A h \in Handles :
         /\ Valid(h) => /\ index(self, h) = Returned(get(self, h).val)
                        /\ index_mut(self, h) = Returned(get_mut(self, h).val)
         /\ ~Valid(h) => /\ index(self, h) = Panic
                         /\ index_mut(self, h) = Panic
                         /\ remove(self, h, overflow_checks).result # Panic
    /\ panicked => last.op \in {"index", "index_mut"}
    /\ last.op \in {"index", "index_mut"} => (panicked <=> ~Valid(last.id))

\* arena[h] has unwound on a stale handle of a non-empty arena.
C10_Witness ==
    /\ panicked
    /\ last.op = "index"
    /\ last.result = Panic
    /\ ~Valid(last.id)
    /\ OccupiedSlots # {}

(* ------------------------------- C11 ---------------------------------- *)

C12_IsEmpty ==
    /\ is_empty(self) = (len(self) = 0)
    /\ is_empty(self) = ~(\E h \in Handles : Valid(h))
    /\ OccupiedSlots = {} =>
         /\ len(self) = 0
         /\ is_empty(self)
         /\ Drain("iter", "front", iter(self)) = <<>>
    /\ Did("is_empty") => last.result.val = Bool(is_empty(self))

\* is_empty() has answered true for an arena whose slots have all been
\* vacated.
C12_Witness ==
    /\ Did("is_empty")
    /\ last.result.val = Bool(TRUE)
    /\ Len(entries) = 2
    /\ OccupiedSlots = {}

(* ------------------------------- C13 ---------------------------------- *)

\* The sequence s read back to front.
Reverse(s) == [k \in 1 .. Len(s) |-> s[Len(s) + 1 - k]]

\* C13: indices() yields the handles of iter() in the same order; the
\* consuming into_iter() yields the values of iter() in the same order, and
\* in the reverse order when it is taken from the back.
C13_IteratorsAgree ==
    LET pairs   == Drain("iter", "front", iter(self))
        handles == [k \in 1 .. Len(pairs) |-> pairs[k][1]]
        values  == [k \in 1 .. Len(pairs) |-> pairs[k][2]]
    IN  /\ Drain("indices", "front", indices(self)) = handles
        /\ Drain("into_iter", "front", into_iter(self)) = values
        /\ Drain("into_iter", "back", into_iter(self)) = Reverse(values)

\* into_iter() has been consumed from the front over a Free slot followed
\* by two live entries with different values.
C13_Witness ==
    /\ Did("into_iter")
    /\ last.item = "front"
    /\ Len(entries) = 3
    /\ FreeSlots = {0}
    /\ last.result.val.values = <<"a", "b">>

(* ------------------------------- C14 ---------------------------------- *)

\* C14: under any interleaving of next() and next_back() on one iter() or
\* iter_mut() cursor, every yielded handle is valid and get of it is the
\* yielded value, no entry is yielded twice, when a call has returned None
\* every live entry has been yielded, and after a None every later call
\* from either end returns None.
C14_DoubleEnded ==
    /\ [](last.op = "cursor" =>
            LET y == last.id.yielded IN
            /\ \A k \in 1 .. Len(y) :
                 /\ Valid(y[k][1])
                 /\ contains(self, y[k][1])
                 /\ get(self, y[k][1]) = Some(y[k][2])
            /\ \A k, l \in 1 .. Len(y) : k # l => y[k][1].index # y[l][1].index
            /\ last.result = Returned(None) =>
                 {y[k][1] : k \in 1 .. Len(y)} = {h \in Handles : Valid(h)})
    /\ [][ (/\ last.op = "cursor"
            /\ last.result = Returned(None)
            /\ last'.op = "cursor"
            /\ last'.item # "open") => last'.result = Returned(None)
         ]_vars

\* An iter_mut() cursor has yielded from the front, then from the back, and
\* then met the Free slot between the two and returned None.
C14_Witness ==
    /\ last.op = "cursor"
    /\ last.id.kind = "iter_mut"
    /\ last.result = Returned(None)
    /\ Len(entries) = 3
    /\ FreeSlots = {1}
    /\ Len(last.id.yielded) = 2
    /\ last.id.yielded[1][1].index = 0
    /\ last.id.yielded[2][1].index = 2

(* ------------------------------- C15 ---------------------------------- *)

\* C15: a successful remove(h) leaves the slot at h.index Free with
\* next_generation = h.generation + 1 and next_free = the free-list head
\* before the call, makes h.index the free-list head, takes 1 from len() and
\* returns the value that was stored in the slot.
C15_RemoveEffect ==
    /\ []((Did("remove") /\ last.result.val # None) =>
            LET h == last.id IN
            /\ At(entries, h.index).tag = "Free"
            /\ At(entries, h.index).next_generation = h.generation + 1
            /\ free_list_head = Some(h.index))
    /\ [][ RemoveOkStep =>
             LET h == last'.id IN
             /\ At(entries', h.index) = Free(h.generation + 1, free_list_head)
             /\ len(self)' = len(self) - 1
             /\ last'.result.val = Some(At(entries, h.index).item)
         ]_vars

(* ------------------------------- C16 ---------------------------------- *)

\* The step leaves every slot other than slot i as it was, and with it the
\* validity and the value of every handle that addresses another slot.
FrameExcept(i) ==
    /\ \A j \in 0 .. Len(entries) - 1 :
         j # i => j < Len(entries') /\ At(entries', j) = At(entries, j)
    /\ \A j \in 0 .. Len(entries') - 1 :
         j # i => j < Len(entries)
    /\ \A h \in Handles :
         h.index # i => /\ Valid(h)' = Valid(h)
                        /\ get(self', h) = get(self, h)

\* C16: insert, a successful remove and a write through get_mut change only
\* the slot they address: validity and get of every handle with another
\* index are the same before and after; get, contains, len, is_empty, iter
\* and indices change nothing of the arena.
C16_Frame ==
    [][ /\ InsertStep => FrameExcept(last'.result.val.index)
        /\ RemoveOkStep => FrameExcept(last'.id.index)
        /\ last'.op = "get_mut" => FrameExcept(last'.id.index)
        /\ last'.op \in {"get", "contains", "len", "is_empty", "iter", "indices"} =>
             /\ entries' = entries
             /\ free_list_head' = free_list_head
             /\ length' = length
      ]_vars

\* A write through get_mut has changed one of two live entries.
C16_Witness ==
    /\ Did("get_mut")
    /\ last.result.val = Some("a")
    /\ last.item = "b"
    /\ Cardinality(OccupiedSlots) = 2
    /\ Cardinality(FreeSlots) = 1

(* ------------------------------- C17 ---------------------------------- *)

\* C17: over the history of one arena no call of insert (or insert_with_id)
\* returns a handle that an earlier call returned, and in every state no two
\* valid handles have the same index.
C17_HandlesUnique ==
    /\ [](\A h1, h2 \in Handles :
            (Valid(h1) /\ Valid(h2) /\ h1.index = h2.index) => h1 = h2)
    /\ [][ (last'.op \in {"insert", "insert_with_id"} /\ last'.result # Panic) =>
             last'.result.val \notin issued
         ]_vars

\* A third handle has been issued after a removal.
C17_Witness ==
    /\ Did("insert")
    /\ Cardinality(issued) = 3
    /\ removed # {}

(* ------------------------------- C18 ---------------------------------- *)

\* C18: no step decreases the number of slots; with an empty free list
\* insert appends exactly one slot Occupied(0, value) and returns the handle
\* (previous number of slots, 0); len() never exceeds the number of slots.
C18_BackingStoreGrows ==
    /\ [](len(self) <= Len(entries))
    /\ [][ /\ Len(entries') >= Len(entries)
           /\ (InsertStep /\ free_list_head = None) =>
                /\ entries' = Append(entries, Occupied(0, last'.item))
                /\ last'.result.val = ID_new(Len(entries), 0)
         ]_vars

\* insert has appended a slot behind a Free one.
C18_Witness ==
    /\ Did("insert")
    /\ last.result.val.index = Len(entries) - 1
    /\ FreeSlots # {}
    /\ len(self) < Len(entries)

(* ------------------------------- C20 ---------------------------------- *)

\* C20: in no reachable state does insert find free_list_head out of range
\* or at a slot that is not Free, does remove find a slot that is not
\* Occupied behind a handle that contains accepted, or does `length -= 1`
\* go below 0; no call of insert or remove unwinds.
C20_AssertionsHold ==
    /\ free_list_head # None =>
         /\ free_list_head.val < Len(entries)
         /\ At(entries, free_list_head.val).tag = "Free"
    /\ \A item \in Values : insert(self, item).result # Panic
    /\ \A h \in Handles :
         /\ contains(self, h) => /\ At(entries, h.index).tag = "Occupied"
                                 /\ length >= 1
         /\ remove(self, h, overflow_checks).result # Panic
    /\ last.op \in {"insert", "remove"} => last.result # Panic

\* remove has taken the live count down to exactly 0.
C20_Witness ==
    /\ Did("remove")
    /\ last.result.val # None
    /\ length = 0
    /\ Len(entries) = 2

(* ------------------------------- C19 ---------------------------------- *)

\* C19: the generation wraps after 2^GenBits remove / reuse cycles (in a
\* build without overflow checks), so once the caller has removed and
\* re-inserted that many times, a handle that was removed is valid again.
C19_Wraparound ==
    (/\ ~overflow_checks
     /\ Cardinality(removed) >= GenMod
     /\ OccupiedSlots # {}) =>
        \E h \in removed : contains(self, h)

====
